---- MODULE Spec2Model ----
(***************************************************************************)
(* The m.room.encrypted event of ruma-events (src/room/encrypted.rs):      *)
(* serialization of the typed values, the hand-written deserialization of  *)
(* the raw content (dispatch on the `algorithm` field), and the raw to     *)
(* typed projection (FromRaw).                                             *)
(*                                                                         *)
(* A JSON value is a tuple whose first element names its type:             *)
(*   <<"absent">>   no value (a key that is not in an object)              *)
(*   <<"null">>, <<"str", s>>, <<"num", n>>                                *)
(*   <<"obj", f>>   an object; f maps the keys the program reads to their  *)
(*                  values, Absent for a key the object does not hold.     *)
(***************************************************************************)
EXTENDS Integers, Sequences, FiniteSets, TLC

VARIABLES input, todo, wire, raw, typed, status

vars == <<input, todo, wire, raw, typed, status>>

(* ------------------------------ bounds --------------------------------- *)

\* largest Olm message type (CiphertextInfo.message_type) drawn
MaxMessageType == 1
\* largest origin_server_ts, in whole milliseconds since the epoch, drawn
MaxMillis == 1
\* largest sub-millisecond remainder of a SystemTime drawn (0 = a whole ms)
MaxSubMilli == 1
\* largest UnsignedData.age drawn
MaxAge == 1

(* ------------------------------- JSON ---------------------------------- *)

Absent == <<"absent">>
Null == <<"null">>
Str(s) == <<"str", s>>
Num(n) == <<"num", n>>
Obj(f) == <<"obj", f>>

IsStr(v) == v[1] = "str"
IsNum(v) == v[1] = "num"
IsObj(v) == v[1] = "obj"

\* serde_json::Value::get: None for a non-object and for a key not held.
Get(v, k) == IF IsObj(v) /\ k \in DOMAIN v[2] THEN v[2][k] ELSE Absent

Ok(v) == [ok |-> TRUE, val |-> v]
Err(e) == [ok |-> FALSE, err |-> e]

\* serde::de::Error::missing_field(field) and serde::de::Error::custom(msg).
\* A message is the tuple of the words of the error's Display text.
MissingField(f) == [kind |-> "missing_field", field |-> f]
Custom(msg) == [kind |-> "custom", msg |-> msg]

\* Display of the error a derived Deserialize (or a primitive) returns.
InvalidTypeMsg(v, expected) == <<"invalid type", v[1], "expected", expected>>
MissingFieldMsg(f) == <<"missing field", f>>

(* ----------------------------- Algorithm ------------------------------- *)

OlmTag == "m.olm.v1.curve25519-aes-sha2"
MegolmTag == "m.megolm.v1.aes-sha2"
CustomTag == "m.custom.unknown"

AlgOlm == [tag |-> "OlmV1Curve25519AesSha2", s |-> ""]
AlgMegolm == [tag |-> "MegolmV1AesSha2", s |-> ""]
AlgCustom(s) == [tag |-> "Custom", s |-> s]

\* Algorithm: From<String>. Every string is an algorithm; the two known
\* tags are their own variants, any other string is Custom(string).
AlgorithmFromStr(s) ==
    CASE s = OlmTag -> AlgOlm
      [] s = MegolmTag -> AlgMegolm
      [] OTHER -> AlgCustom(s)

\* Algorithm: Display / Into<String>.
AlgorithmToStr(a) ==
    CASE a.tag = "OlmV1Curve25519AesSha2" -> OlmTag
      [] a.tag = "MegolmV1AesSha2" -> MegolmTag
      [] OTHER -> a.s

\* from_json_value::<Algorithm>: a string, through From<String>.
AlgorithmFromJson(v) ==
    IF IsStr(v) THEN Ok(AlgorithmFromStr(v[2]))
    ELSE Err(InvalidTypeMsg(v, "a string"))

(* ------------------------- variant content structs --------------------- *)

CurveKeys == {"test_curve_key"}

\* String::deserialize
StringFromJson(v) ==
    IF IsStr(v) THEN Ok(v[2]) ELSE Err(InvalidTypeMsg(v, "a string"))

\* js_int::UInt::deserialize: a non-negative integer.
UIntFromJson(v) ==
    IF IsNum(v) /\ v[2] >= 0 THEN Ok(v[2]) ELSE Err(InvalidTypeMsg(v, "a UInt"))

\* First error of a derived struct Deserialize reading a JSON object: the
\* keys held are visited in the object's (sorted) key order and the first
\* value of the wrong type ends the visit; the fields still unset are then
\* reported missing in declaration order. `parsed` maps each field to the
\* result of its own deserializer, `sorted` and `declared` are the field
\* names in the two orders.
RECURSIVE FirstInvalid(_, _, _)
FirstInvalid(v, parsed, sorted) ==
    IF sorted = <<>> THEN <<>>
    ELSE LET f == Head(sorted) IN
         IF Get(v, f) # Absent /\ ~parsed[f].ok THEN parsed[f].err
         ELSE FirstInvalid(v, parsed, Tail(sorted))

RECURSIVE FirstMissing(_, _)
FirstMissing(v, declared) ==
    IF declared = <<>> THEN <<>>
    ELSE IF Get(v, Head(declared)) = Absent THEN MissingFieldMsg(Head(declared))
    ELSE FirstMissing(v, Tail(declared))

StructError(v, parsed, sorted, declared) ==
    IF ~IsObj(v) THEN InvalidTypeMsg(v, "a struct")
    ELSE IF FirstInvalid(v, parsed, sorted) # <<>> THEN FirstInvalid(v, parsed, sorted)
    ELSE FirstMissing(v, declared)

\* CiphertextInfo: derived Deserialize; `message_type` is renamed "type".
CiphertextInfoFromJson(v) ==
    LET parsed == [body |-> StringFromJson(Get(v, "body")),
                   type |-> UIntFromJson(Get(v, "type"))]
        e == StructError(v, parsed, <<"body", "type">>, <<"body", "type">>)
    IN IF e # <<>> THEN Err(e)
       ELSE Ok([body |-> parsed.body.val, message_type |-> parsed.type.val])

\* CiphertextInfoToJson without the rename of message_type to "type".
CiphertextInfoToJson_NoRename(i) ==
    Obj([body |-> Str(i.body), message_type |-> Num(i.message_type)])

\* CiphertextInfo: derived Serialize.
CiphertextInfoToJson(i) == Obj([body |-> Str(i.body), type |-> Num(i.message_type)])

\* BTreeMap<String, CiphertextInfo>::deserialize: an object, every value of
\* which is a CiphertextInfo; the first bad entry (one curve key here) fails.
CiphertextMapFromJson(v) ==
    IF ~IsObj(v) THEN Err(InvalidTypeMsg(v, "a map"))
    ELSE LET held == {k \in CurveKeys : Get(v, k) # Absent}
             bad == {k \in held : ~CiphertextInfoFromJson(Get(v, k)).ok}
         IN IF bad # {} THEN Err(CiphertextInfoFromJson(Get(v, CHOOSE k \in bad : TRUE)).err)
            ELSE Ok([k \in held |-> CiphertextInfoFromJson(Get(v, k)).val])

\* BTreeMap<String, CiphertextInfo>::serialize
CiphertextMapToJson(m) ==
    Obj([k \in CurveKeys |-> IF k \in DOMAIN m THEN CiphertextInfoToJson(m[k]) ELSE Absent])

\* OlmV1Curve25519AesSha2Content: derived Deserialize (unknown keys ignored).
OlmContentFromJson(v) ==
    LET parsed == [algorithm |-> AlgorithmFromJson(Get(v, "algorithm")),
                   ciphertext |-> CiphertextMapFromJson(Get(v, "ciphertext")),
                   sender_key |-> StringFromJson(Get(v, "sender_key"))]
        e == StructError(v, parsed, <<"algorithm", "ciphertext", "sender_key">>,
                         <<"algorithm", "ciphertext", "sender_key">>)
    IN IF e # <<>> THEN Err(e)
       ELSE Ok([algorithm |-> parsed.algorithm.val,
                ciphertext |-> parsed.ciphertext.val,
                sender_key |-> parsed.sender_key.val])

\* MegolmContentFromJson with #[serde(default)] on the string fields: a key
\* not held gives the empty string.
MegolmContentFromJson_DefaultsMissing(v) ==
    LET field(k) == IF Get(v, k) = Absent THEN Ok("") ELSE StringFromJson(Get(v, k))
        parsed == [algorithm |-> AlgorithmFromJson(Get(v, "algorithm")),
                   ciphertext |-> field("ciphertext"),
                   sender_key |-> field("sender_key"),
                   device_id |-> field("device_id"),
                   session_id |-> field("session_id")]
        e == StructError(v, parsed,
                         <<"algorithm", "ciphertext", "device_id", "sender_key", "session_id">>,
                         <<"algorithm">>)
    IN IF e # <<>> THEN Err(e)
       ELSE Ok([algorithm |-> parsed.algorithm.val,
                ciphertext |-> parsed.ciphertext.val,
                sender_key |-> parsed.sender_key.val,
                device_id |-> parsed.device_id.val,
                session_id |-> parsed.session_id.val])

\* MegolmV1AesSha2Content: derived Deserialize (unknown keys ignored).
MegolmContentFromJson(v) ==
    LET parsed == [algorithm |-> AlgorithmFromJson(Get(v, "algorithm")),
                   ciphertext |-> StringFromJson(Get(v, "ciphertext")),
                   sender_key |-> StringFromJson(Get(v, "sender_key")),
                   device_id |-> StringFromJson(Get(v, "device_id")),
                   session_id |-> StringFromJson(Get(v, "session_id"))]
        e == StructError(v, parsed,
                         <<"algorithm", "ciphertext", "device_id", "sender_key", "session_id">>,
                         <<"algorithm", "ciphertext", "sender_key", "device_id", "session_id">>)
    IN IF e # <<>> THEN Err(e)
       ELSE Ok([algorithm |-> parsed.algorithm.val,
                ciphertext |-> parsed.ciphertext.val,
                sender_key |-> parsed.sender_key.val,
                device_id |-> parsed.device_id.val,
                session_id |-> parsed.session_id.val])

\* OlmContentToJson writing the tag of the variant instead of the field.
OlmContentToJson_VariantTag(c) ==
    Obj([algorithm |-> Str(OlmTag),
         ciphertext |-> CiphertextMapToJson(c.ciphertext),
         sender_key |-> Str(c.sender_key),
         device_id |-> Absent,
         session_id |-> Absent])

\* OlmV1Curve25519AesSha2Content: derived Serialize; writes the stored
\* `algorithm` field first, then the other fields.
OlmContentToJson(c) ==
    Obj([algorithm |-> Str(AlgorithmToStr(c.algorithm)),
         ciphertext |-> CiphertextMapToJson(c.ciphertext),
         sender_key |-> Str(c.sender_key),
         device_id |-> Absent,
         session_id |-> Absent])

\* MegolmV1AesSha2Content: derived Serialize.
MegolmContentToJson(c) ==
    Obj([algorithm |-> Str(AlgorithmToStr(c.algorithm)),
         ciphertext |-> Str(c.ciphertext),
         sender_key |-> Str(c.sender_key),
         device_id |-> Str(c.device_id),
         session_id |-> Str(c.session_id)])

(* ------------------------- EncryptedEventContent ----------------------- *)

Olm(c) == [variant |-> "OlmV1Curve25519AesSha2", content |-> c]
Megolm(c) == [variant |-> "MegolmV1AesSha2", content |-> c]
Nonexhaustive == [variant |-> "__Nonexhaustive"]

\* The tag each variant is documented to stand for.
VariantTag(variant) ==
    CASE variant = "OlmV1Curve25519AesSha2" -> OlmTag
      [] variant = "MegolmV1AesSha2" -> MegolmTag

CustomUnsupportedMsg == <<"Custom algorithms are not supported by EncryptedEventContent.">>
NonexhaustiveMsg == <<"Attempted to deserialize __Nonexhaustive variant.">>

\* EncryptedEventContent: Serialize, #[serde(untagged)]: the inner struct is
\* written as it is (the unit variant as null).
SerializeContent(c) ==
    CASE c.variant = "OlmV1Curve25519AesSha2" -> OlmContentToJson(c.content)
      [] c.variant = "MegolmV1AesSha2" -> MegolmContentToJson(c.content)
      [] c.variant = "__Nonexhaustive" -> Null

\* DispatchContent with the bodies of the two supported arms exchanged.
DispatchContent_ArmsExchanged(method, value) ==
    CASE method.tag = "OlmV1Curve25519AesSha2" ->
           LET content == MegolmContentFromJson(value)
           IN IF content.ok THEN Ok(Megolm(content.val)) ELSE Err(Custom(content.err))
      [] method.tag = "MegolmV1AesSha2" ->
           LET content == OlmContentFromJson(value)
           IN IF content.ok THEN Ok(Olm(content.val)) ELSE Err(Custom(content.err))
      [] method.tag = "Custom" -> Err(Custom(CustomUnsupportedMsg))
      [] method.tag = "__Nonexhaustive" -> Err(Custom(NonexhaustiveMsg))

\* DispatchContent answering a custom algorithm with the reserved variant.
DispatchContent_CustomAsMarker(method, value) ==
    CASE method.tag = "OlmV1Curve25519AesSha2" ->
           LET content == OlmContentFromJson(value)
           IN IF content.ok THEN Ok(Olm(content.val)) ELSE Err(Custom(content.err))
      [] method.tag = "MegolmV1AesSha2" ->
           LET content == MegolmContentFromJson(value)
           IN IF content.ok THEN Ok(Megolm(content.val)) ELSE Err(Custom(content.err))
      [] method.tag = "Custom" -> Ok(Nonexhaustive)
      [] method.tag = "__Nonexhaustive" -> Err(Custom(NonexhaustiveMsg))

\* DispatchContent parsing a custom algorithm's object as the Megolm struct.
DispatchContent_CustomAsMegolm(method, value) ==
    CASE method.tag = "OlmV1Curve25519AesSha2" ->
           LET content == OlmContentFromJson(value)
           IN IF content.ok THEN Ok(Olm(content.val)) ELSE Err(Custom(content.err))
      [] method.tag \in {"MegolmV1AesSha2", "Custom"} ->
           LET content == MegolmContentFromJson(value)
           IN IF content.ok THEN Ok(Megolm(content.val)) ELSE Err(Custom(content.err))
      [] method.tag = "__Nonexhaustive" -> Err(Custom(NonexhaustiveMsg))

\* The match on the parsed algorithm in raw::EncryptedEventContent::deserialize.
DispatchContent(method, value) ==
    CASE method.tag = "OlmV1Curve25519AesSha2" ->
           LET content == OlmContentFromJson(value)
           IN IF content.ok THEN Ok(Olm(content.val)) ELSE Err(Custom(content.err))
      [] method.tag = "MegolmV1AesSha2" ->
           LET content == MegolmContentFromJson(value)
           IN IF content.ok THEN Ok(Megolm(content.val)) ELSE Err(Custom(content.err))
      [] method.tag = "Custom" -> Err(Custom(CustomUnsupportedMsg))
      [] method.tag = "__Nonexhaustive" -> Err(Custom(NonexhaustiveMsg))

\* DeserializeContent indexing value["algorithm"] (null for a key not held)
\* instead of matching on value.get("algorithm").
DeserializeContent_Indexed(value) ==
    LET method_value == IF Get(value, "algorithm") = Absent THEN Null
                        ELSE Get(value, "algorithm")
        method == AlgorithmFromJson(method_value)
    IN IF ~method.ok THEN Err(Custom(method.err))
       ELSE DispatchContent(method.val, value)

\* raw::EncryptedEventContent::deserialize
DeserializeContent(value) ==
    LET method_value == Get(value, "algorithm") IN
    IF method_value = Absent THEN Err(MissingField("algorithm"))
    ELSE LET method == AlgorithmFromJson(method_value) IN
         IF ~method.ok THEN Err(Custom(method.err))
         ELSE DispatchContent(method.val, value)

Panic == [variant |-> "panic"]

\* FromRaw for EncryptedEventContent: unreachable!() on the marker.
FromRawContent(r) ==
    CASE r.variant = "OlmV1Curve25519AesSha2" -> Olm(r.content)
      [] r.variant = "MegolmV1AesSha2" -> Megolm(r.content)
      [] r.variant = "__Nonexhaustive" -> Panic

(* ----------------------------- EncryptedEvent -------------------------- *)

None == [some |-> FALSE]
Some(v) == [some |-> TRUE, v |-> v]

EventTypeName == "m.room.encrypted"
ValidEventIds == {"$event:example.org"}
ValidRoomIds == {"!room:example.org"}
ValidUserIds == {"@user:example.org"}

\* EventId / RoomId / UserId ::deserialize: a string the identifier's own
\* validation accepts.
IdFromJson(v, valid) ==
    IF IsStr(v) /\ v[2] \in valid THEN Ok(v[2])
    ELSE Err(Custom(<<"invalid identifier", v[1]>>))

\* Option<RoomId>::deserialize: null is None.
OptionRoomIdFromJson(v) ==
    IF v = Null THEN Ok(None)
    ELSE LET r == IdFromJson(v, ValidRoomIds)
         IN IF r.ok THEN Ok(Some(r.val)) ELSE r

\* A SystemTime is a whole number of milliseconds since the Unix epoch (ms)
\* plus a remainder below one millisecond (sub).
\* ruma_serde::time::ms_since_unix_epoch::serialize: the whole milliseconds.
MsSinceUnixEpochToJson(t) == Num(t.ms)

\* ruma_serde::time::ms_since_unix_epoch::deserialize: UNIX_EPOCH + millis.
MsSinceUnixEpochFromJson(v) ==
    LET n == UIntFromJson(v)
    IN IF n.ok THEN Ok([ms |-> n.val, sub |-> 0]) ELSE Err(Custom(n.err))

\* UnsignedData: every field optional; Default is every field None.
DefaultUnsigned == [age |-> None]

UnsignedFromJson(v) ==
    IF ~IsObj(v) THEN Err(Custom(InvalidTypeMsg(v, "a struct")))
    ELSE IF Get(v, "age") \in {Absent, Null} THEN Ok([age |-> None])
    ELSE IF IsNum(Get(v, "age")) THEN Ok([age |-> Some(Get(v, "age")[2])])
    ELSE Err(Custom(InvalidTypeMsg(Get(v, "age"), "an Int")))

UnsignedToJson(u) ==
    Obj([age |-> IF u.age.some THEN Num(u.age.v) ELSE Absent])

\* ruma_serde::is_default
IsDefault(u) == u = DefaultUnsigned

EventFields == <<"content", "event_id", "origin_server_ts", "room_id", "sender", "unsigned">>

\* SerializeEvent without the two skip_serializing_if attributes: None is
\* written as null and the default unsigned as an empty object.
SerializeEvent_NoSkip(e) ==
    Obj([type |-> Str(EventTypeName),
         content |-> SerializeContent(e.content),
         event_id |-> Str(e.event_id),
         origin_server_ts |-> MsSinceUnixEpochToJson(e.origin_server_ts),
         room_id |-> IF e.room_id.some THEN Str(e.room_id.v) ELSE Null,
         sender |-> Str(e.sender),
         unsigned |-> UnsignedToJson(e.unsigned)])

\* EncryptedEvent: Serialize with tag = "type", rename = "m.room.encrypted":
\* `type` first, room_id skipped when None, unsigned skipped when default.
SerializeEvent(e) ==
    Obj([type |-> Str(EventTypeName),
         content |-> SerializeContent(e.content),
         event_id |-> Str(e.event_id),
         origin_server_ts |-> MsSinceUnixEpochToJson(e.origin_server_ts),
         room_id |-> IF e.room_id.some THEN Str(e.room_id.v) ELSE Absent,
         sender |-> Str(e.sender),
         unsigned |-> IF IsDefault(e.unsigned) THEN Absent ELSE UnsignedToJson(e.unsigned)])

\* The result of each field's own deserializer on the value the key holds.
EventFieldResults(v) ==
    [content |-> DeserializeContent(Get(v, "content")),
     event_id |-> IdFromJson(Get(v, "event_id"), ValidEventIds),
     origin_server_ts |-> MsSinceUnixEpochFromJson(Get(v, "origin_server_ts")),
     room_id |-> OptionRoomIdFromJson(Get(v, "room_id")),
     sender |-> IdFromJson(Get(v, "sender"), ValidUserIds),
     unsigned |-> UnsignedFromJson(Get(v, "unsigned"))]

\* RequiredEventFields with room_id and unsigned required as well.
RequiredEventFields_All ==
    <<"content", "event_id", "origin_server_ts", "room_id", "sender", "unsigned">>

\* The fields a missing key fails: room_id is an Option and unsigned has
\* #[serde(default)].
RequiredEventFields == <<"content", "event_id", "origin_server_ts", "sender">>

RECURSIVE FirstMissingField(_, _)
FirstMissingField(v, declared) ==
    IF declared = <<>> THEN ""
    ELSE IF Get(v, Head(declared)) = Absent THEN Head(declared)
    ELSE FirstMissingField(v, Tail(declared))

\* raw::EncryptedEvent: derived Deserialize. The keys are read in the order
\* of the text, which the value tree does not keep: when several held keys
\* are bad, any of them can be the one reported. Unknown keys (`type`) are
\* ignored.
DeserializeEvent(v) ==
    LET parsed == EventFieldResults(v)
        held == {i \in 1..Len(EventFields) : Get(v, EventFields[i]) # Absent}
        bad == {i \in held : ~parsed[EventFields[i]].ok}
        missing == FirstMissingField(v, RequiredEventFields)
    IN IF ~IsObj(v) THEN {Err(Custom(InvalidTypeMsg(v, "a struct")))}
       ELSE IF bad # {} THEN {Err(parsed[EventFields[i]].err) : i \in bad}
       ELSE IF missing # "" THEN {Err(MissingField(missing))}
       ELSE {Ok([content |-> parsed.content.val,
                 event_id |-> parsed.event_id.val,
                 origin_server_ts |-> parsed.origin_server_ts.val,
                 room_id |-> IF Get(v, "room_id") = Absent THEN None
                             ELSE parsed.room_id.val,
                 sender |-> parsed.sender.val,
                 unsigned |-> IF Get(v, "unsigned") = Absent THEN DefaultUnsigned
                              ELSE parsed.unsigned.val])}

\* FromRawEvent filling `unsigned` with the default instead of raw.unsigned.
FromRawEvent_DefaultUnsigned(r) ==
    IF FromRawContent(r.content) = Panic THEN Panic
    ELSE [content |-> FromRawContent(r.content),
          event_id |-> r.event_id,
          origin_server_ts |-> r.origin_server_ts,
          room_id |-> r.room_id,
          sender |-> r.sender,
          unsigned |-> DefaultUnsigned]

\* FromRaw for EncryptedEvent: the panic of the content's projection
\* unwinds through it.
FromRawEvent(r) ==
    IF FromRawContent(r.content) = Panic THEN Panic
    ELSE [content |-> FromRawContent(r.content),
          event_id |-> r.event_id,
          origin_server_ts |-> r.origin_server_ts,
          room_id |-> r.room_id,
          sender |-> r.sender,
          unsigned |-> r.unsigned]

(* --------------------------- the inputs drawn -------------------------- *)

FieldJsons == {Absent, Str("sender_key"), Num(1)}

InfoJsons ==
    {Obj([body |-> b, type |-> t]) :
        b \in {Absent, Str("encrypted_body"), Num(1)},
        t \in {Absent, Str("1"), Num(-1)} \cup {Num(n) : n \in 0..MaxMessageType}}

CiphertextJsons ==
    {Absent, Str("ciphertext"), Num(1)}
    \cup {Obj([k \in CurveKeys |-> x]) : x \in {Absent, Str("x")} \cup InfoJsons}

AlgorithmJsons == {Absent, Null, Num(1), Str(OlmTag), Str(MegolmTag), Str(CustomTag), Str("")}

\* The content objects decoded: every combination of the five keys' values.
ContentJsons ==
    {Obj([algorithm |-> a, ciphertext |-> c, sender_key |-> s, device_id |-> d,
          session_id |-> i]) :
        a \in AlgorithmJsons, c \in CiphertextJsons, s \in FieldJsons,
        d \in {Absent, Str("device_id"), Num(1)},
        i \in {Absent, Str("session_id"), Num(1)}}
    \cup {Null, Str("content"), Obj([other |-> Str("x")])}

Algorithms == {AlgOlm, AlgMegolm, AlgCustom(CustomTag)}

CiphertextInfos == [body : {"encrypted_body"}, message_type : 0..MaxMessageType]

CiphertextMaps == UNION {[K -> CiphertextInfos] : K \in SUBSET CurveKeys}

OlmContents ==
    [algorithm : Algorithms, ciphertext : CiphertextMaps, sender_key : {"sender_key", "test_key"}]

MegolmContents ==
    [algorithm : Algorithms, ciphertext : {"ciphertext"}, sender_key : {"sender_key", "test_key"},
     device_id : {"device_id"}, session_id : {"session_id"}]

\* The values of EncryptedEventContent (and of raw::EncryptedEventContent,
\* which holds the same structs): `algorithm` is a public field of both
\* structs, so every algorithm can be stored in either variant.
Contents ==
    {Olm(c) : c \in OlmContents} \cup {Megolm(c) : c \in MegolmContents} \cup {Nonexhaustive}

SystemTimes == [ms : 0..MaxMillis, sub : 0..MaxSubMilli]

Unsigneds == {[age |-> a] : a \in {None} \cup {Some(n) : n \in 0..MaxAge}}

\* The values of EncryptedEvent and of raw::EncryptedEvent.
Events ==
    [content : Contents, event_id : ValidEventIds, origin_server_ts : SystemTimes,
     room_id : {None} \cup {Some(r) : r \in ValidRoomIds}, sender : ValidUserIds,
     unsigned : Unsigneds]

MegolmJson ==
    Obj([algorithm |-> Str(MegolmTag), ciphertext |-> Str("ciphertext"),
         sender_key |-> Str("sender_key"), device_id |-> Str("device_id"),
         session_id |-> Str("session_id")])

OlmJson ==
    Obj([algorithm |-> Str(OlmTag),
         ciphertext |-> Obj([test_curve_key |-> Obj([body |-> Str("encrypted_body"),
                                                     type |-> Num(1)])]),
         sender_key |-> Str("test_key"), device_id |-> Absent, session_id |-> Absent])

PartialMegolmJson ==
    Obj([algorithm |-> Str(MegolmTag), ciphertext |-> Absent, sender_key |-> Absent,
         device_id |-> Absent, session_id |-> Absent])

TypeJsons == {Absent, Str(EventTypeName), Str("m.room.message")}

\* The envelopes decoded.
EventJsons ==
    {Obj([type |-> ty, content |-> c, event_id |-> e, origin_server_ts |-> t,
          room_id |-> r, sender |-> s, unsigned |-> u]) :
        ty \in TypeJsons,
        c \in {Absent, Str("content"), MegolmJson, OlmJson, PartialMegolmJson},
        e \in {Absent, Str("not an id")} \cup {Str(x) : x \in ValidEventIds},
        t \in {Absent, Str("0"), Num(-1)} \cup {Num(n) : n \in 0..MaxMillis},
        r \in {Absent, Null, Num(1)} \cup {Str(x) : x \in ValidRoomIds},
        s \in {Absent, Num(1)} \cup {Str(x) : x \in ValidUserIds},
        u \in {Absent, Str("unsigned"), Obj([age |-> Absent])}
              \cup {Obj([age |-> Num(n)]) : n \in 0..MaxAge}}

(* ---------------------------- the state machine ------------------------ *)

NoResult == [ok |-> FALSE, err |-> [kind |-> "none"]]
NoValue == [variant |-> "none"]

\* The three uses of the module: decode a wire value (EventJson::deserialize:
\* raw deserialization, then from_raw) and encode the result again; encode a
\* typed value and decode it back; project a raw value.
DecodeSteps == <<"deserialize", "from_raw", "serialize">>
EncodeSteps == <<"serialize", "deserialize", "from_raw">>
ProjectSteps == <<"from_raw">>

Init ==
    /\ \/ /\ \E j \in ContentJsons : input = [kind |-> "content", use |-> "decode", v |-> j]
          /\ todo = DecodeSteps /\ wire = input.v /\ raw = NoResult /\ typed = NoValue
       \/ /\ \E j \in EventJsons : input = [kind |-> "event", use |-> "decode", v |-> j]
          /\ todo = DecodeSteps /\ wire = input.v /\ raw = NoResult /\ typed = NoValue
       \/ /\ \E c \in Contents : input = [kind |-> "content", use |-> "encode", v |-> c]
          /\ todo = EncodeSteps /\ wire = Absent /\ raw = NoResult /\ typed = input.v
       \/ /\ \E e \in Events : input = [kind |-> "event", use |-> "encode", v |-> e]
          /\ todo = EncodeSteps /\ wire = Absent /\ raw = NoResult /\ typed = input.v
       \/ /\ \E c \in Contents : input = [kind |-> "content", use |-> "project", v |-> c]
          /\ todo = ProjectSteps /\ wire = Absent /\ raw = Ok(input.v) /\ typed = NoValue
       \/ /\ \E e \in Events : input = [kind |-> "event", use |-> "project", v |-> e]
          /\ todo = ProjectSteps /\ wire = Absent /\ raw = Ok(input.v) /\ typed = NoValue
    /\ status = "running"

Ready(kind, step) ==
    /\ status = "running"
    /\ todo # <<>>
    /\ Head(todo) = step
    /\ input.kind = kind

\* What is left to do after a step that returned.
Advance ==
    /\ todo' = Tail(todo)
    /\ status' = IF Tail(todo) = <<>> THEN "done" ELSE "running"

\* A step that returned Err, or panicked, ends the use.
Stop(how) ==
    /\ todo' = <<>>
    /\ status' = how

\* to_json_value(&content)
SerializeContentStep ==
    /\ Ready("content", "serialize")
    /\ wire' = SerializeContent(typed)
    /\ Advance
    /\ UNCHANGED <<input, raw, typed>>

\* raw::EncryptedEventContent::deserialize on the wire value
DeserializeContentStep ==
    /\ Ready("content", "deserialize")
    /\ raw' = DeserializeContent(wire)
    /\ IF raw'.ok THEN Advance ELSE Stop("error")
    /\ UNCHANGED <<input, wire, typed>>

\* EncryptedEventContent::from_raw
FromRawContentStep ==
    /\ Ready("content", "from_raw")
    /\ typed' = FromRawContent(raw.val)
    /\ IF typed' = Panic THEN Stop("panic") ELSE Advance
    /\ UNCHANGED <<input, wire, raw>>

\* to_json_value(&event)
SerializeEventStep ==
    /\ Ready("event", "serialize")
    /\ wire' = SerializeEvent(typed)
    /\ Advance
    /\ UNCHANGED <<input, raw, typed>>

\* raw::EncryptedEvent::deserialize on the wire value
DeserializeEventStep ==
    /\ Ready("event", "deserialize")
    /\ raw' \in DeserializeEvent(wire)
    /\ IF raw'.ok THEN Advance ELSE Stop("error")
    /\ UNCHANGED <<input, wire, typed>>

\* EncryptedEvent::from_raw
FromRawEventStep ==
    /\ Ready("event", "from_raw")
    /\ typed' = FromRawEvent(raw.val)
    /\ IF typed' = Panic THEN Stop("panic") ELSE Advance
    /\ UNCHANGED <<input, wire, raw>>

Next ==
    \/ SerializeContentStep
    \/ DeserializeContentStep
    \/ FromRawContentStep
    \/ SerializeEventStep
    \/ DeserializeEventStep
    \/ FromRawEventStep

Spec == Init /\ [][Next]_vars

TypeOK ==
    /\ status \in {"running", "done", "error", "panic"}
    /\ (status = "running") = (todo # <<>>)

(* ------------------------------ the claims ----------------------------- *)

SupportedVariants == {"OlmV1Curve25519AesSha2", "MegolmV1AesSha2"}

\* The algorithm each variant is documented to stand for.
VariantAlgorithm(variant) ==
    IF variant = "OlmV1Curve25519AesSha2" THEN AlgOlm ELSE AlgMegolm

\* A content value whose stored `algorithm` agrees with its variant.
Consistent(c) ==
    /\ c.variant \in SupportedVariants
    /\ c.content.algorithm = VariantAlgorithm(c.variant)

ContentEncodeUse == input.kind = "content" /\ input.use = "encode"
ContentDecodeUse == input.kind = "content" /\ input.use = "decode"
ContentDecoded == ContentDecodeUse /\ raw # NoResult

C2_DecodedTagMatchesVariant ==
    (ContentDecoded /\ raw.ok) =>
        LET a == Get(input.v, "algorithm") IN
        /\ raw.val.variant \in SupportedVariants
        /\ (raw.val.variant = "OlmV1Curve25519AesSha2") = (a = Str(OlmTag))
        /\ (raw.val.variant = "MegolmV1AesSha2") = (a = Str(MegolmTag))
        /\ raw.val.content.algorithm = VariantAlgorithm(raw.val.variant)
        /\ typed # NoValue => typed.variant = raw.val.variant
        /\ status = "done" => Get(wire, "algorithm") = a

C2_Witness ==
    /\ ContentDecoded /\ status = "done"
    /\ typed.variant = "OlmV1Curve25519AesSha2"
    /\ Get(input.v, "algorithm") = Str(OlmTag)
    /\ Get(wire, "algorithm") = Str(OlmTag)

C4_MissingDiscriminator ==
    (ContentDecoded /\ Get(input.v, "algorithm") = Absent)
        => /\ raw = Err(MissingField("algorithm"))
           /\ status = "error"
           /\ typed = NoValue

C4_Witness ==
    /\ ContentDecoded
    /\ Get(input.v, "algorithm") = Absent
    /\ Get(input.v, "ciphertext") = Num(1)
    /\ Get(input.v, "sender_key") = Str("sender_key")
    /\ raw = Err(MissingField("algorithm"))

\* C5: decoding a content object fails with the custom error "Custom
\* algorithms are not supported by EncryptedEventContent." exactly when its
\* `algorithm` is a string other than the two supported tags, whatever the
\* other keys hold; an `algorithm` that is not a string, a missing one and a
\* failing variant each give another error.
C5_UnsupportedDiscriminator ==
    ContentDecoded =>
        LET a == Get(input.v, "algorithm") IN
        /\ (raw = Err(Custom(CustomUnsupportedMsg)))
              = (IsStr(a) /\ a[2] \notin {OlmTag, MegolmTag})
        /\ (a # Absent /\ ~IsStr(a)) => raw = Err(Custom(InvalidTypeMsg(a, "a string")))

C5_Witness ==
    /\ ContentDecoded
    /\ Get(input.v, "algorithm") = Str(CustomTag)
    /\ Get(input.v, "ciphertext") = Str("ciphertext")
    /\ Get(input.v, "device_id") = Str("device_id")
    /\ raw = Err(Custom(CustomUnsupportedMsg))
    /\ status = "error"

\* A ciphertext entry, and the required fields of each variant, as the
\* wire contract describes them.
WellFormedInfo(j) ==
    /\ IsObj(j)
    /\ IsStr(Get(j, "body"))
    /\ IsNum(Get(j, "type")) /\ Get(j, "type")[2] >= 0

WellFormedOlmFields(j) ==
    /\ IsStr(Get(j, "sender_key"))
    /\ IsObj(Get(j, "ciphertext"))
    /\ \A k \in CurveKeys :
          Get(Get(j, "ciphertext"), k) = Absent \/ WellFormedInfo(Get(Get(j, "ciphertext"), k))

WellFormedMegolmFields(j) ==
    \A k \in {"ciphertext", "sender_key", "device_id", "session_id"} : IsStr(Get(j, k))

\* A decoded content object with a supported tag and a required field of
\* that variant missing or wrongly typed.
PartialVariantDecoded ==
    /\ ContentDecoded
    /\ \/ Get(input.v, "algorithm") = Str(OlmTag) /\ ~WellFormedOlmFields(input.v)
       \/ Get(input.v, "algorithm") = Str(MegolmTag) /\ ~WellFormedMegolmFields(input.v)

CauseKinds == {"missing field", "invalid type"}

\* C6 as stated: decoding a content object with a supported tag and a
\* missing or wrongly typed required field fails, returns no value, and the
\* error carries the underlying cause and the tag that selected the branch.
C6_PartialVariantErrorCarriesTag ==
    PartialVariantDecoded =>
        /\ ~raw.ok /\ status = "error" /\ typed = NoValue
        /\ raw.err.kind = "custom"
        /\ raw.err.msg[1] \in CauseKinds
        /\ \E i \in DOMAIN raw.err.msg : raw.err.msg[i] = Get(input.v, "algorithm")[2]

\* C6 amended: decoding a content object with a supported tag and a missing
\* or wrongly typed required field fails and returns no value; the error is
\* a custom error whose message is the message of the underlying cause (for
\* the object holding only the Megolm tag: missing field ciphertext) and
\* does not name the tag.
C6_PartialVariantErrorIsCause ==
    PartialVariantDecoded =>
        /\ ~raw.ok /\ status = "error" /\ typed = NoValue
        /\ raw.err.kind = "custom"
        /\ raw.err.msg[1] \in CauseKinds
        /\ \A i \in DOMAIN raw.err.msg : raw.err.msg[i] # Get(input.v, "algorithm")[2]
        /\ input.v = PartialMegolmJson => raw.err.msg = <<"missing field", "ciphertext">>

C6_Witness ==
    /\ ContentDecoded
    /\ input.v = PartialMegolmJson
    /\ raw = Err(Custom(<<"missing field", "ciphertext">>))
    /\ status = "error"

EventDecodeUse == input.kind = "event" /\ input.use = "decode"
EventEncodeUse == input.kind = "event" /\ input.use = "encode"
EventDecoded == EventDecodeUse /\ raw # NoResult

\* An envelope with valid content, event_id, origin_server_ts and sender,
\* whose room_id and unsigned are either not held or valid.
ValidEnvelope(j) ==
    /\ Get(j, "content") \in {MegolmJson, OlmJson}
    /\ IsStr(Get(j, "event_id")) /\ Get(j, "event_id")[2] \in ValidEventIds
    /\ IsNum(Get(j, "origin_server_ts")) /\ Get(j, "origin_server_ts")[2] >= 0
    /\ IsStr(Get(j, "sender")) /\ Get(j, "sender")[2] \in ValidUserIds
    /\ \/ Get(j, "room_id") = Absent
       \/ IsStr(Get(j, "room_id")) /\ Get(j, "room_id")[2] \in ValidRoomIds
    /\ \/ Get(j, "unsigned") = Absent
       \/ /\ IsObj(Get(j, "unsigned"))
          /\ Get(Get(j, "unsigned"), "age") = Absent \/ IsNum(Get(Get(j, "unsigned"), "age"))

\* C7: decoding an envelope with valid content, event_id, origin_server_ts
\* and sender succeeds whether or not room_id and unsigned are held; without
\* unsigned the event has the default UnsignedData, without room_id it has
\* room_id None, and a room_id held is the event's room_id.
C7_EnvelopeOptionality ==
    (EventDecoded /\ ValidEnvelope(input.v)) =>
        /\ raw.ok
        /\ status # "error" /\ status # "panic"
        /\ \A e \in {raw.val} \cup (IF typed = NoValue THEN {} ELSE {typed}) :
              /\ Get(input.v, "unsigned") = Absent => e.unsigned = [age |-> None]
              /\ Get(input.v, "room_id") = Absent => e.room_id = None
              /\ Get(input.v, "room_id") # Absent
                    => e.room_id = Some(Get(input.v, "room_id")[2])
              /\ e.event_id = Get(input.v, "event_id")[2]
              /\ e.sender = Get(input.v, "sender")[2]
              /\ e.origin_server_ts = [ms |-> Get(input.v, "origin_server_ts")[2], sub |-> 0]

C7_Witness ==
    /\ EventDecoded /\ ValidEnvelope(input.v)
    /\ Get(input.v, "unsigned") = Absent
    /\ Get(input.v, "room_id") = Absent
    /\ typed # NoValue
    /\ typed.unsigned = DefaultUnsigned
    /\ typed.room_id = None

\* The content of a content value or of an event.
ContentOf(kind, v) == IF kind = "content" THEN v ELSE v.content

\* C8: decoding (of a wire value, or of the encoding of a typed value) never
\* returns the reserved __Nonexhaustive variant: it returns an Olm or a
\* Megolm variant or an error, the projection of a decoded value never
\* panics, and no decode error is the one of the reserved variant.
C8_MarkerUnreachable ==
    input.use \in {"decode", "encode"} =>
        /\ status # "panic"
        /\ raw # Err(Custom(NonexhaustiveMsg))
        /\ raw.ok => ContentOf(input.kind, raw.val).variant \in SupportedVariants
        /\ status = "done" => ContentOf(input.kind, typed).variant \in SupportedVariants

C8_Witness ==
    /\ ContentDecodeUse
    /\ Get(input.v, "algorithm") = Str(CustomTag)
    /\ WellFormedMegolmFields(input.v)
    /\ ~raw.ok /\ raw # NoResult
    /\ status = "error"

ProjectUse == input.use = "project"

ContentRoundTrips(e) == Consistent(e.content)

====
